---------------------------- MODULE Spec2Model ----------------------------
(***************************************************************************)
(* ExpectQueriedColumnsToMatchLogicalExpression                            *)
(* (contrib/experimental/.../expect_queried_columns_to_match_logical_      *)
(* expression.py): a query expectation that counts the rows of a batch     *)
(* for which a caller-supplied logical expression is false and succeeds    *)
(* when that count is zero.                                                *)
(*                                                                         *)
(* Python values are tagged records [t |-> type, v |-> value]; a dict is   *)
(* a function from its keys; a raised exception is a record                *)
(* [exc |-> class name, msg |-> str(e)].                                   *)
(***************************************************************************)
EXTENDS Integers, Sequences, FiniteSets, TLC

\* ------------------------------------------------------------------ bounds

\* Rows of the generated table "long" (the bundled example rows, repeated).
MaxRows == 12

\* ----------------------------------------------------------- Python values

None == [t |-> "none"]
PyStr(s) == [t |-> "str", v |-> s]
PyInt(n) == [t |-> "int", v |-> n]
PyDict(d) == [t |-> "dict", v |-> d]

\* isinstance(x, str)
isinstance_str(x) == x.t = "str"

\* len(x) of a str
len(x) == Len(x.v)

\* dict.get(key): None for an absent key
dict_get(d, key) == IF key \in DOMAIN d THEN d[key] ELSE None

NoError == [exc |-> "none", msg |-> ""]
Raise(cls, text) == [exc |-> cls, msg |-> text]

\* obj[key]: the value, or the exception the subscript raises
\* (None[...] is a TypeError, a dict without the key a KeyError).
Subscript(obj, key) ==
    IF obj.t # "dict"
    THEN [err |-> Raise("TypeError", "'NoneType' object is not subscriptable"), val |-> None]
    ELSE IF key \notin DOMAIN obj.v
         THEN [err |-> Raise("KeyError", "'" \o key \o "'"), val |-> None]
         ELSE [err |-> NoError, val |-> obj.v[key]]

\* Decimal digits of a natural number.
Digit(d) ==
    CASE d = 0 -> "0" [] d = 1 -> "1" [] d = 2 -> "2" [] d = 3 -> "3" [] d = 4 -> "4"
      [] d = 5 -> "5" [] d = 6 -> "6" [] d = 7 -> "7" [] d = 8 -> "8" [] d = 9 -> "9"

RECURSIVE DecNat(_)
DecNat(n) == IF n < 10 THEN Digit(n) ELSE DecNat(n \div 10) \o Digit(n % 10)

\* str(n) of an int
DecInt(n) == IF n < 0 THEN "-" \o DecNat(0 - n) ELSE DecNat(n)

\* The text an f-string or str.format puts in place of {x}.
format_value(x) ==
    CASE x.t = "str" -> x.v
      [] x.t = "int" -> DecInt(x.v)
      [] x.t = "none" -> "None"

\* ---------------------------------------------------------- configurations

\* column_list values a caller may pass (the three of the bundled examples,
\* the empty string, a non-string, None)
ColumnLists == {"col1,col2,col3", "col1,col2", "col1,col3"}

\* expression values of the bundled examples, and two single comparisons
Expressions ==
    {"col1>0 and col2>=3 and col3<5", "col1>1 and col2>=3",
     "col1>3 or col3<3", "col1=5 or col2=4", "col1>0", "col1>5"}

ColumnListValues == {PyStr(s) : s \in ColumnLists \cup {""}} \cup {PyInt(5), None}
ExpressionValues == {PyStr(s) : s \in Expressions \cup {""}} \cup {PyInt(7), None}

\* template_dict with any subset of its two keys
TemplateDicts ==
    {PyDict([k \in {"column_list", "expression"} |->
                IF k = "column_list" THEN c ELSE e]) :
        c \in ColumnListValues, e \in ExpressionValues}
    \cup {PyDict([k \in {"column_list"} |-> c]) : c \in ColumnListValues}
    \cup {PyDict([k \in {"expression"} |-> e]) : e \in ExpressionValues}

\* configuration.kwargs: template_dict absent, None, or a dict
Kwargs ==
    {[k \in {} |-> None]}
    \cup {[k \in {"template_dict"} |-> td] : td \in TemplateDicts \cup {None}}

Configurations == {[kwargs |-> kw] : kw \in Kwargs}

\* ------------------------------------------------- validate_configuration

InvalidExpectationConfigurationError == "InvalidExpectationConfigurationError"

\* Mutant: the message of the column list assertion copied to the one on
\* expression.
validate_configuration_copied_message(configuration) ==
    LET column_list == Subscript(dict_get(configuration.kwargs, "template_dict"), "column_list")
        expression == Subscript(dict_get(configuration.kwargs, "template_dict"), "expression")
    IN  IF column_list.err # NoError THEN column_list.err
        ELSE IF expression.err # NoError THEN expression.err
        ELSE IF column_list.val = None
             THEN Raise(InvalidExpectationConfigurationError, "column list must be specified")
        ELSE IF expression.val = None
             THEN Raise(InvalidExpectationConfigurationError, "logical expression must be specified")
        ELSE IF ~(isinstance_str(column_list.val) /\ len(column_list.val) > 0)
             THEN Raise(InvalidExpectationConfigurationError, "column list must be string")
        ELSE IF ~(isinstance_str(expression.val) /\ len(expression.val) > 0)
             THEN Raise(InvalidExpectationConfigurationError, "column list must be string")
        ELSE NoError

\* Mutant: the assertions ordered field by field, both on column_list
\* before both on expression.
validate_configuration_field_by_field(configuration) ==
    LET column_list == Subscript(dict_get(configuration.kwargs, "template_dict"), "column_list")
        expression == Subscript(dict_get(configuration.kwargs, "template_dict"), "expression")
    IN  IF column_list.err # NoError THEN column_list.err
        ELSE IF expression.err # NoError THEN expression.err
        ELSE IF column_list.val = None
             THEN Raise(InvalidExpectationConfigurationError, "column list must be specified")
        ELSE IF ~(isinstance_str(column_list.val) /\ len(column_list.val) > 0)
             THEN Raise(InvalidExpectationConfigurationError, "column list must be string")
        ELSE IF expression.val = None
             THEN Raise(InvalidExpectationConfigurationError, "logical expression must be specified")
        ELSE IF ~(isinstance_str(expression.val) /\ len(expression.val) > 0)
             THEN Raise(InvalidExpectationConfigurationError, "logical expression must be a string")
        ELSE NoError

\* super().validate_configuration only checks the query of the class, and
\* `configuration or self.configuration` is the configuration of the run.
validate_configuration(configuration) ==
    LET column_list == Subscript(dict_get(configuration.kwargs, "template_dict"), "column_list")
        expression == Subscript(dict_get(configuration.kwargs, "template_dict"), "expression")
    IN  IF column_list.err # NoError THEN column_list.err
        ELSE IF expression.err # NoError THEN expression.err
        ELSE IF column_list.val = None
             THEN Raise(InvalidExpectationConfigurationError, "column list must be specified")
        ELSE IF expression.val = None
             THEN Raise(InvalidExpectationConfigurationError, "logical expression must be specified")
        ELSE IF ~(isinstance_str(column_list.val) /\ len(column_list.val) > 0)
             THEN Raise(InvalidExpectationConfigurationError, "column list must be string")
        ELSE IF ~(isinstance_str(expression.val) /\ len(expression.val) > 0)
             THEN Raise(InvalidExpectationConfigurationError, "logical expression must be a string")
        ELSE NoError

\* ---------------------------------------------------------- query template

\* A format string is its literal text and its replacement fields, in order.
Lit(s) == [kind |-> "lit", s |-> s]
Field(name) == [kind |-> "field", s |-> name]

\* Mutant: the template without the negation of the expression.
query_without_not ==
    << Lit(" SELECT COUNT(*)\n                    FROM (SELECT "),
       Field("column_list"),
       Lit("\n                    FROM "),
       Field("active_batch"),
       Lit(" a\n                    WHERE ("),
       Field("expression"),
       Lit(")) b\n                ") >>

\* Mutant: the template with the expression put in quotes.
query_quoted_expression ==
    << Lit(" SELECT COUNT(*)\n                    FROM (SELECT "),
       Field("column_list"),
       Lit("\n                    FROM "),
       Field("active_batch"),
       Lit(" a\n                    WHERE not ('"),
       Field("expression"),
       Lit("')) b\n                ") >>

\* The baked-in SQL query of the class.
query ==
    << Lit(" SELECT COUNT(*)\n                    FROM (SELECT "),
       Field("column_list"),
       Lit("\n                    FROM "),
       Field("active_batch"),
       Lit(" a\n                    WHERE not ("),
       Field("expression"),
       Lit(")) b\n                ") >>

\* The class-level defaults; 'query' is the template above.
default_kwarg_values_init ==
    [result_format |-> PyStr("BASIC"),
     include_config |-> TRUE,
     catch_exceptions |-> FALSE,
     meta |-> None,
     template_dict |-> None,
     expression |-> None,
     query |-> query]

\* str.format(**mapping): every field replaced by the text of its value,
\* nothing escaped or quoted.
RECURSIVE str_format(_, _)
str_format(template, mapping) ==
    IF template = << >> THEN ""
    ELSE LET seg == Head(template)
         IN  (IF seg.kind = "lit" THEN seg.s ELSE format_value(mapping[seg.s]))
             \o str_format(Tail(template), mapping)

\* A query a caller passes in kwargs in place of the one of the class
\* ('query' is a success key): here the count of the rows that match.
query_override ==
    << Lit("SELECT COUNT(*) FROM (SELECT "),
       Field("column_list"),
       Lit(" FROM "),
       Field("active_batch"),
       Lit(" a WHERE ("),
       Field("expression"),
       Lit(")) b") >>

\* The template a build uses: kwargs' 'query' when the configuration
\* carries one, else the default of the class.
query_in_effect(kwargs, defaults) ==
    IF "query" \in DOMAIN kwargs THEN kwargs["query"] ELSE defaults.query

\* A configuration of the bundled examples with the query overridden.
OverrideConfigurations ==
    {[kwargs |-> [k \in {"template_dict", "query"} |->
                     IF k = "query" THEN query_override
                     ELSE PyDict([k2 \in {"column_list", "expression"} |->
                             IF k2 = "column_list" THEN PyStr("col1,col2")
                             ELSE PyStr("col1>1 and col2>=3")])]]}

\* template_dict holds both fields (str.format finds its keys).
HasBothFields(c) ==
    LET td == dict_get(c.kwargs, "template_dict")
    IN  td.t = "dict" /\ DOMAIN td.v = {"column_list", "expression"}

\* The query text for a configuration and a batch: the template's fields
\* taken from template_dict, active_batch from the batch reference.
build_query(template, template_dict, batch) ==
    str_format(template,
               [k \in {"column_list", "expression", "active_batch"} |->
                   IF k = "active_batch" THEN PyStr(batch) ELSE template_dict.v[k]])

\* ------------------------------------------------------------- the batches

\* The data of the bundled examples, by column.
data ==
    [col1 |-> <<1, 2, 3, 4, 5, 5>>,
     col2 |-> <<10, 3, 4, 4, 5, 5>>,
     col3 |-> <<1, 2, 2, 3, 4, 4>>]

Cell(n) == [null |-> FALSE, v |-> n]
NULL == [null |-> TRUE, v |-> 0]

DataRow(i) == [col1 |-> Cell(data.col1[i]), col2 |-> Cell(data.col2[i]), col3 |-> Cell(data.col3[i])]

Batches == {"empty", "bundled", "long", "sparse"}

\* The rows of each batch: no rows, the bundled data, the bundled data
\* repeated up to MaxRows rows, and rows with NULL cells.
Table(b) ==
    CASE b = "empty" -> << >>
      [] b = "bundled" -> [i \in 1..Len(data.col1) |-> DataRow(i)]
      [] b = "long" -> [i \in 1..MaxRows |-> DataRow(((i - 1) % Len(data.col1)) + 1)]
      [] b = "sparse" ->
            << [col1 |-> NULL, col2 |-> Cell(3), col3 |-> Cell(1)],
               [col1 |-> Cell(2), col2 |-> NULL, col3 |-> Cell(2)],
               [col1 |-> Cell(5), col2 |-> Cell(4), col3 |-> NULL],
               [col1 |-> Cell(1), col2 |-> Cell(1), col3 |-> Cell(9)] >>

\* The tests of the bundled examples: the template_dict passed in and the
\* success expected, all on the bundled data.
examples ==
    {[title |-> "basic_positive_test_and",
      column_list |-> "col1,col2,col3", expression |-> "col1>0 and col2>=3 and col3<5",
      success |-> TRUE],
     [title |-> "basic_negative_test_and",
      column_list |-> "col1,col2", expression |-> "col1>1 and col2>=3",
      success |-> FALSE],
     [title |-> "basic_positive_test_or",
      column_list |-> "col1,col3", expression |-> "col1>3 or col3<3",
      success |-> TRUE],
     [title |-> "basic_negative_test_or",
      column_list |-> "col1,col2", expression |-> "col1=5 or col2=4",
      success |-> FALSE]}

\* ---------------------------------------------------------- SQL evaluation

\* SQL's three truth values: "T", "F" and "U" (unknown, from NULL).
Not3(a) == CASE a = "T" -> "F" [] a = "F" -> "T" [] OTHER -> "U"
And3(a, b) == IF a = "F" \/ b = "F" THEN "F" ELSE IF a = "T" /\ b = "T" THEN "T" ELSE "U"
Or3(a, b) == IF a = "T" \/ b = "T" THEN "T" ELSE IF a = "F" /\ b = "F" THEN "F" ELSE "U"

Cmp(op, cell, k) ==
    IF cell.null THEN "U"
    ELSE LET holds == CASE op = ">" -> cell.v > k
                        [] op = ">=" -> cell.v >= k
                        [] op = "<" -> cell.v < k
                        [] op = "=" -> cell.v = k
         IN  IF holds THEN "T" ELSE "F"

Atom(col, op, k) == [op |-> op, col |-> col, k |-> k]
Conj(l, r) == [op |-> "and", l |-> l, r |-> r]
Disj(l, r) == [op |-> "or", l |-> l, r |-> r]

\* The parse of each expression text.
ParseExpr(text) ==
    CASE text = "col1>0 and col2>=3 and col3<5" ->
            Conj(Conj(Atom("col1", ">", 0), Atom("col2", ">=", 3)), Atom("col3", "<", 5))
      [] text = "col1>1 and col2>=3" -> Conj(Atom("col1", ">", 1), Atom("col2", ">=", 3))
      [] text = "col1>3 or col3<3" -> Disj(Atom("col1", ">", 3), Atom("col3", "<", 3))
      [] text = "col1=5 or col2=4" -> Disj(Atom("col1", "=", 5), Atom("col2", "=", 4))
      [] text = "col1>0" -> Atom("col1", ">", 0)
      [] text = "col1>5" -> Atom("col1", ">", 5)

RECURSIVE Eval3(_, _)
Eval3(e, row) ==
    CASE e.op = "and" -> And3(Eval3(e.l, row), Eval3(e.r, row))
      [] e.op = "or" -> Or3(Eval3(e.l, row), Eval3(e.r, row))
      [] OTHER -> Cmp(e.op, row[e.col], e.k)

\* Whitespace runs collapsed to one space, leading and trailing ones dropped:
\* the token stream of a SQL text.  A piece of text squeezes to its body and
\* whether whitespace leads and trails it; two pieces join with one space
\* when whitespace separates them.
SqueezeJoin(a, b) ==
    IF a.body = "" THEN [body |-> b.body, lead |-> a.lead \/ b.lead,
                         trail |-> IF b.body = "" THEN a.trail \/ b.trail ELSE b.trail]
    ELSE IF b.body = "" THEN [body |-> a.body, lead |-> a.lead,
                              trail |-> a.trail \/ b.lead \/ b.trail]
    ELSE [body |-> a.body \o (IF a.trail \/ b.lead THEN " " ELSE "") \o b.body,
          lead |-> a.lead, trail |-> b.trail]

RECURSIVE SqueezeRange(_, _, _)
SqueezeRange(s, lo, hi) ==
    IF lo > hi THEN [body |-> "", lead |-> FALSE, trail |-> FALSE]
    ELSE IF lo = hi
         THEN IF SubSeq(s, lo, lo) \in {" ", "\n", "\t"}
              THEN [body |-> "", lead |-> TRUE, trail |-> TRUE]
              ELSE [body |-> SubSeq(s, lo, lo), lead |-> FALSE, trail |-> FALSE]
    ELSE LET mid == (lo + hi) \div 2
         IN  SqueezeJoin(SqueezeRange(s, lo, mid), SqueezeRange(s, mid + 1, hi))

Squeeze(s) == SqueezeRange(s, 1, Len(s)).body

\* The texts a build can yield, and each with its whitespace squeezed
\* (computed once).
QueryTexts ==
    {build_query(tpl, dict_get(c.kwargs, "template_dict"), b) :
        tpl \in {query, query_override},
        c \in {c \in Configurations : HasBothFields(c)},
        b \in Batches}

SqueezedQueryTexts == {<<txt, Squeeze(txt)>> : txt \in QueryTexts}

\* Squeeze(text), looked up when text is one of QueryTexts.
Normalized(text) ==
    LET known == {p \in SqueezedQueryTexts : p[1] = text}
    IN  IF known = {} THEN Squeeze(text) ELSE (CHOOSE p \in known : TRUE)[2]

\* SELECT COUNT(*) over the rows a WHERE predicate keeps: a row is kept
\* only when the predicate is true of it (not false, not unknown).
CountWhere(rows, e, negated) ==
    Cardinality({i \in 1..Len(rows) :
                    (IF negated THEN Not3(Eval3(e, rows[i])) ELSE Eval3(e, rows[i])) = "T"})

SelectCount(cl, b, pred) ==
    "SELECT COUNT(*) FROM (SELECT " \o cl \o " FROM " \o b \o " a WHERE " \o pred \o ") b"

\* The statements the engine understands: a count over a batch with the
\* predicate `not (e)` or `(e)`.
Statements ==
    {[cl |-> cl, b |-> b, e |-> e, negated |-> n] :
        cl \in ColumnLists, b \in Batches, e \in Expressions, n \in BOOLEAN}

StatementText(st) ==
    SelectCount(st.cl, st.b, (IF st.negated THEN "not (" ELSE "(") \o st.e \o ")")

\* What the engine answers to each statement it understands: the text
\* and the count.
EngineAnswers ==
    {<<StatementText(st), CountWhere(Table(st.b), ParseExpr(st.e), st.negated)>> :
        st \in Statements}

\* The query.template_values metric: the rows the engine returns for a
\* query text (one row holding the count), or the engine's error.
execute_query(text) ==
    LET q == Normalized(text)
        known == {a \in EngineAnswers : a[1] = q}
    IN  IF known = {}
        THEN [err |-> Raise("ExecutionEngineError", q), val |-> << >>]
        ELSE [err |-> NoError, val |-> << <<(CHOOSE a \in known : TRUE)[2]>> >>]

\* --------------------------------------------------------------- _validate

\* Mutant: a count of 1 taken for a match.
_validate_off_by_one(configuration, metrics) ==
    LET query_count_result == metrics["query.template_values"][1][1]
    IN  IF query_count_result <= 1
        THEN [success |-> TRUE,
              result |-> [info |-> "The table matches the logical expression",
                          observed_value |-> "matches logical expression"]]
        ELSE [success |-> FALSE,
              result |-> [info |-> "The table does not match the logical expression",
                          observed_value |-> "bad records count: "
                                             \o format_value(PyInt(query_count_result))]]

\* Mutant: the info of the first branch copied to the second.
_validate_same_info(configuration, metrics) ==
    LET query_count_result == metrics["query.template_values"][1][1]
    IN  IF query_count_result = 0
        THEN [success |-> TRUE,
              result |-> [info |-> "The table matches the logical expression",
                          observed_value |-> "matches logical expression"]]
        ELSE [success |-> FALSE,
              result |-> [info |-> "The table matches the logical expression",
                          observed_value |-> "bad records count: "
                                             \o format_value(PyInt(query_count_result))]]

_validate(configuration, metrics) ==
    LET query_count_result == metrics["query.template_values"][1][1]
    IN  IF query_count_result = 0
        THEN [success |-> TRUE,
              result |-> [info |-> "The table matches the logical expression",
                          observed_value |-> "matches logical expression"]]
        ELSE [success |-> FALSE,
              result |-> [info |-> "The table does not match the logical expression",
                          observed_value |-> "bad records count: "
                                             \o format_value(PyInt(query_count_result))]]

\* -------------------------------------------------- _prescriptive_renderer

\* substitute_none_for_missing(kwargs, kwarg_list): a copy of all of kwargs,
\* with None for every name of kwarg_list that kwargs does not hold.
substitute_none_for_missing(kwargs, kwarg_list) ==
    [k \in DOMAIN kwargs \cup kwarg_list |->
        IF k \in DOMAIN kwargs THEN kwargs[k] ELSE None]

\* Mutant: the column list put into the sentence in place of the expression.
_prescriptive_renderer_column_list(configuration, runtime_configuration) ==
    LET styling == dict_get(runtime_configuration, "styling")
        params == substitute_none_for_missing(configuration.kwargs, {"template_dict"})
        expression == Subscript(params["template_dict"], "column_list")
    IN  IF expression.err # NoError THEN [err |-> expression.err, val |-> << >>]
        ELSE LET template_str == "expect table to match the expression "
                                 \o format_value(expression.val) \o " "
             IN  [err |-> NoError,
                  val |-> << [content_block_type |-> "string_template",
                              string_template |-> [template |-> template_str,
                                                   params |-> params,
                                                   styling |-> styling]] >>]

_prescriptive_renderer(configuration, runtime_configuration) ==
    LET styling == dict_get(runtime_configuration, "styling")
        params == substitute_none_for_missing(configuration.kwargs, {"template_dict"})
        expression == Subscript(params["template_dict"], "expression")
    IN  IF expression.err # NoError THEN [err |-> expression.err, val |-> << >>]
        ELSE LET template_str == "expect table to match the expression "
                                 \o format_value(expression.val) \o " "
             IN  [err |-> NoError,
                  val |-> << [content_block_type |-> "string_template",
                              string_template |-> [template |-> template_str,
                                                   params |-> params,
                                                   styling |-> styling]] >>]

\* ------------------------------------------------------------------- state

\* Two callers hold an expectation each and call its methods in any order,
\* their calls interleaved.
Callers == {"c1", "c2"}

VARIABLES
    default_kwarg_values,   \* the class attribute; its 'query' is the template
    configuration,          \* per caller: the ExpectationConfiguration it holds
    active_batch,           \* per caller: name of the batch (table) it validates
    verdict,                \* per caller: what validate_configuration raised
                            \* (NoError when it returned), None before the call
    sql,                    \* per caller: the query text built, or None
    metrics,                \* per caller: the metrics the engine returned, or None
    evaluated,              \* per caller: the metrics last passed to _validate, or None
    outcome,                \* per caller: what _validate returned, or None
    rendered                \* the last return of _prescriptive_renderer, or None

core == <<default_kwarg_values, configuration, active_batch, verdict, sql, metrics,
          evaluated, outcome>>
vars == <<default_kwarg_values, configuration, active_batch, verdict, sql, metrics,
          evaluated, outcome, rendered>>

\* Both fields are texts the batches can be queried with.
IsRunnable(c) ==
    /\ HasBothFields(c)
    /\ dict_get(c.kwargs, "template_dict").v["column_list"] \in {PyStr(x) : x \in ColumnLists}
    /\ dict_get(c.kwargs, "template_dict").v["expression"] \in {PyStr(x) : x \in Expressions}

\* What the first caller holds: any configuration on the bundled data, a
\* runnable one on any batch, or one with the query overridden.
FirstInputs ==
    {i \in [configuration : Configurations, batch : Batches] :
        i.batch = "bundled" \/ IsRunnable(i.configuration)}
    \cup {[configuration |-> c, batch |-> "bundled"] : c \in OverrideConfigurations}

\* What the second caller holds: the second bundled example.
SecondInputs ==
    {[configuration |->
        [kwargs |-> [k \in {"template_dict"} |->
            PyDict([k2 \in {"column_list", "expression"} |->
                IF k2 = "column_list" THEN PyStr("col1,col2")
                ELSE PyStr("col1>1 and col2>=3")])]],
      batch |-> "bundled"]}

\* Counts a caller passes to _validate directly, without running a query.
DirectCounts == {0}

MetricsOf(n) == [k \in {"query.template_values"} |-> << <<n>> >>]

\* The metrics a caller can pass to _validate: a count of its own, or what
\* the engine returned for its query.
MetricsHanded(t) ==
    {MetricsOf(n) : n \in DirectCounts}
    \cup (IF metrics[t] = None THEN {} ELSE {metrics[t]})

Init ==
    /\ default_kwarg_values = default_kwarg_values_init
    /\ \E i1 \in FirstInputs, i2 \in SecondInputs :
          /\ configuration = [t \in Callers |->
                IF t = "c1" THEN i1.configuration ELSE i2.configuration]
          /\ active_batch = [t \in Callers |-> IF t = "c1" THEN i1.batch ELSE i2.batch]
    /\ verdict = [t \in Callers |-> None]
    /\ sql = [t \in Callers |-> None]
    /\ metrics = [t \in Callers |-> None]
    /\ evaluated = [t \in Callers |-> None]
    /\ outcome = [t \in Callers |-> None]
    /\ rendered = None

\* A call of validate_configuration: it returns or raises, and writes
\* nothing.
ValidateConfiguration(t) ==
    /\ verdict' = [verdict EXCEPT ![t] = validate_configuration(configuration[t])]
    /\ UNCHANGED <<default_kwarg_values, configuration, active_batch, sql, metrics,
                   evaluated, outcome, rendered>>

\* The metric provider formats the query in effect for the configuration
\* and the batch (without both keys of template_dict str.format raises and
\* no text exists).
BuildQuery(t) ==
    /\ HasBothFields(configuration[t])
    /\ sql' = [sql EXCEPT ![t] =
                PyStr(build_query(query_in_effect(configuration[t].kwargs,
                                                  default_kwarg_values),
                                  dict_get(configuration[t].kwargs, "template_dict"),
                                  active_batch[t]))]
    /\ UNCHANGED <<default_kwarg_values, configuration, active_batch, verdict, metrics,
                   evaluated, outcome, rendered>>

\* The execution engine runs the query text (its error goes to the caller
\* and leaves no metrics).
ExecuteQuery(t) ==
    /\ sql[t] # None
    /\ LET r == execute_query(sql[t].v)
       IN  /\ r.err = NoError
           /\ metrics' = [metrics EXCEPT ![t] = [k \in {"query.template_values"} |-> r.val]]
    /\ UNCHANGED <<default_kwarg_values, configuration, active_batch, verdict, sql,
                   evaluated, outcome, rendered>>

\* A call of _validate with some metrics m: it checks nothing about the
\* configuration or about validate_configuration having run.
Evaluate(t) ==
    \E m \in MetricsHanded(t) :
        /\ evaluated' = [evaluated EXCEPT ![t] = m]
        /\ outcome' = [outcome EXCEPT ![t] = _validate(configuration[t], m)]
        /\ UNCHANGED <<default_kwarg_values, configuration, active_batch, verdict, sql,
                       metrics, rendered>>

\* A call of _prescriptive_renderer with no runtime_configuration.
Render(t) ==
    /\ rendered' = [caller |-> t,
                    result |-> _prescriptive_renderer(configuration[t], [k \in {} |-> None])]
    /\ UNCHANGED core

Next ==
    \E t \in Callers :
        \/ ValidateConfiguration(t)
        \/ BuildQuery(t)
        \/ ExecuteQuery(t)
        \/ Evaluate(t)
        \/ Render(t)

Spec == Init /\ [][Next]_vars

\* -------------------------------------------------------------- properties

\* t occurs in s
Contains(s, t) == \E i \in 1..(Len(s) - Len(t) + 1) : SubSeq(s, i, i + Len(t) - 1) = t

\* s starts with t
StartsWith(s, t) == Len(t) <= Len(s) /\ SubSeq(s, 1, Len(t)) = t

TemplateDictOf(c) == dict_get(c.kwargs, "template_dict")

\* What is wrong with one field of a configuration: "absent" (no
\* template_dict, or no such key), "none", "type" (not a string), "empty",
\* or "ok".
FailureKind(c, key) ==
    LET td == TemplateDictOf(c)
    IN  IF td.t # "dict" \/ key \notin DOMAIN td.v THEN "absent"
        ELSE IF td.v[key].t = "none" THEN "none"
        ELSE IF td.v[key].t # "str" THEN "type"
        ELSE IF td.v[key].v = "" THEN "empty"
        ELSE "ok"

RequiredFields == {"column_list", "expression"}

ConfigOK(c) == \A key \in RequiredFields : FailureKind(c, key) = "ok"

\* The field an error message speaks of.
NamesField(msg, key) ==
    IF key = "column_list" THEN StartsWith(msg, "column list")
    ELSE StartsWith(msg, "logical expression")

\* The count _validate read from the metrics.
CountOf(m) == m["query.template_values"][1][1]

\* C1: every configuration whose column_list or expression is missing, None,
\* not a string or empty is turned down by validate_configuration with an
\* InvalidExpectationConfigurationError whose message names an offending
\* field; it is never accepted and never fails with another exception.
C1_InvalidRaisesConfigurationError ==
    \A t \in Callers :
        (verdict[t] # None /\ ~ConfigOK(configuration[t])) =>
            /\ verdict[t] # NoError
            /\ verdict[t].exc = InvalidExpectationConfigurationError
            /\ \E key \in RequiredFields :
                  /\ FailureKind(configuration[t], key) # "ok"
                  /\ NamesField(verdict[t].msg, key)

\* C2: for a non-negative count, _validate succeeds exactly when the count
\* is 0, and for a positive count observed_value is 'bad records count: n'
\* and so contains the decimal text of n.
C2_SuccessIffZero ==
    \A t \in Callers :
        (outcome[t] # None /\ CountOf(evaluated[t]) >= 0) =>
            /\ outcome[t].success <=> (CountOf(evaluated[t]) = 0)
            /\ CountOf(evaluated[t]) > 0 =>
                  /\ Contains(outcome[t].result.observed_value,
                              ToString(CountOf(evaluated[t])))
                  /\ outcome[t].result.observed_value
                        = "bad records count: " \o ToString(CountOf(evaluated[t]))

C2_Witness ==
    \E t \in Callers :
        /\ outcome[t] # None
        /\ CountOf(evaluated[t]) >= 10
        /\ outcome[t].success = FALSE

\* The rows of a batch for which an expression text evaluates to false.
ViolatingRows(b, text) ==
    {i \in 1..Len(Table(b)) : Eval3(ParseExpr(text), Table(b)[i]) = "F"}

\* The run of a caller went end to end: the class's query built for its
\* configuration, run by the engine, and the engine's metrics evaluated.
EndToEnd(t) ==
    /\ "query" \notin DOMAIN configuration[t].kwargs
    /\ sql[t] # None
    /\ metrics[t] # None
    /\ outcome[t] # None
    /\ evaluated[t] = metrics[t]

\* C3: end to end, success is true exactly when no row of the batch
\* violates the expression; on the bundled data every bundled example
\* gets the success its test expects, and a failing one reports a
\* positive count.
C3_EndToEnd ==
    \A t \in Callers :
        EndToEnd(t) =>
            LET td == TemplateDictOf(configuration[t]).v
            IN  /\ outcome[t].success
                      <=> (ViolatingRows(active_batch[t], td["expression"].v) = {})
                /\ \A ex \in examples :
                      (/\ active_batch[t] = "bundled"
                       /\ td["column_list"].v = ex.column_list
                       /\ td["expression"].v = ex.expression)
                      => /\ outcome[t].success = ex.success
                         /\ ~ex.success =>
                               /\ CountOf(evaluated[t]) > 0
                               /\ Contains(outcome[t].result.observed_value,
                                           ToString(CountOf(evaluated[t])))

C3_Witness ==
    \E t \in Callers :
        /\ EndToEnd(t)
        /\ active_batch[t] = "bundled"
        /\ TemplateDictOf(configuration[t]).v["column_list"].v = "col1,col2"
        /\ TemplateDictOf(configuration[t]).v["expression"].v = "col1>1 and col2>=3"
        /\ outcome[t].success = FALSE
        /\ outcome[t].result.observed_value = "bad records count: 1"

\* C4 as stated: the outcome is one of two fixed texts, with info 'table
\* matches the logical expression' for a count of 0 and 'table does not
\* match the logical expression' for a positive count.
C4_OutcomeTextAsStated ==
    \A t \in Callers :
        (outcome[t] # None /\ CountOf(evaluated[t]) >= 0) =>
            outcome[t] =
                IF CountOf(evaluated[t]) = 0
                THEN [success |-> TRUE,
                      result |-> [info |-> "table matches the logical expression",
                                  observed_value |-> "matches logical expression"]]
                ELSE [success |-> FALSE,
                      result |-> [info |-> "table does not match the logical expression",
                                  observed_value |-> "bad records count: "
                                                     \o ToString(CountOf(evaluated[t]))]]

\* C4 amended: the outcome is one of two fixed texts, with info 'The table
\* matches the logical expression' for a count of 0 and 'The table does not
\* match the logical expression' for a positive count.
C4_OutcomeText ==
    \A t \in Callers :
        (outcome[t] # None /\ CountOf(evaluated[t]) >= 0) =>
            outcome[t] =
                IF CountOf(evaluated[t]) = 0
                THEN [success |-> TRUE,
                      result |-> [info |-> "The table matches the logical expression",
                                  observed_value |-> "matches logical expression"]]
                ELSE [success |-> FALSE,
                      result |-> [info |-> "The table does not match the logical expression",
                                  observed_value |-> "bad records count: "
                                                     \o ToString(CountOf(evaluated[t]))]]

C4_Witness ==
    \E t \in Callers :
        /\ outcome[t] # None
        /\ CountOf(evaluated[t]) = 4
        /\ outcome[t].result.info = "The table does not match the logical expression"

BuildInputs(t) ==
    [column_list |-> TemplateDictOf(configuration[t]).v["column_list"],
     expression |-> TemplateDictOf(configuration[t]).v["expression"],
     batch |-> active_batch[t]]

\* The query of the claim for the inputs of a caller.
ClaimedQueryText(t) ==
    "SELECT COUNT(*) FROM (SELECT " \o format_value(BuildInputs(t).column_list)
        \o " FROM " \o BuildInputs(t).batch
        \o " a WHERE not (" \o format_value(BuildInputs(t).expression) \o ")) b"

\* The text an overriding query gives for the inputs of a caller.
OverrideQueryText(t) ==
    "SELECT COUNT(*) FROM (SELECT " \o format_value(BuildInputs(t).column_list)
        \o " FROM " \o BuildInputs(t).batch
        \o " a WHERE (" \o format_value(BuildInputs(t).expression) \o ")) b"

Sentence(e) == "expect table to match the expression " \o e

\* C7: the renderer returns one string_template block whose template is the
\* sentence 'expect table to match the expression <expression>', the
\* expression as the configuration's template_dict holds it, and rendering
\* changes neither the configuration nor the state of the evaluation.
C7_RenderDescription ==
    /\ [] ((/\ rendered # None
            /\ rendered.result.err = NoError
            /\ FailureKind(configuration[rendered.caller], "expression") \in {"ok", "empty"})
            => LET e == TemplateDictOf(configuration[rendered.caller]).v["expression"].v
                   block == rendered.result.val[1]
               IN  /\ Len(rendered.result.val) = 1
                   /\ block.content_block_type = "string_template"
                   /\ StartsWith(block.string_template.template, Sentence(e))
                   /\ Squeeze(block.string_template.template) = Squeeze(Sentence(e))
                   /\ e = "col1>0" =>
                         Contains(block.string_template.template,
                                  "expect table to match the expression col1>0"))
    /\ [][(rendered' # rendered /\ rendered' # None) => UNCHANGED core]_vars

C7_Witness ==
    /\ rendered # None
    /\ rendered.result.err = NoError
    /\ TemplateDictOf(configuration[rendered.caller]).v["expression"] = PyStr("col1>0")
    /\ outcome[rendered.caller] # None
    /\ \E u \in Callers : u # rendered.caller /\ outcome[u] # None

\* validate_configuration was called for the caller's configuration and
\* raised.
Rejected(t) == verdict[t] # None /\ verdict[t] # NoError

\* Configurations with both fields present in which only `key` fails.
OnlyFails(c, key) ==
    /\ \A k \in RequiredFields : FailureKind(c, k) # "absent"
    /\ FailureKind(c, key) # "ok"
    /\ \A k \in RequiredFields \ {key} : FailureKind(c, k) = "ok"

\* C9 as stated: for one field, a presence failure (None), a type failure
\* (not a string) and an emptiness failure (empty string) never produce
\* the same message.
C9_ThreeKindsDistinctAsStated ==
    \A t \in Callers :
        Rejected(t) =>
            \A key \in RequiredFields : \A c2 \in Configurations :
                (/\ OnlyFails(configuration[t], key)
                 /\ OnlyFails(c2, key)
                 /\ FailureKind(configuration[t], key) # FailureKind(c2, key))
                => /\ verdict[t].exc = InvalidExpectationConfigurationError
                   /\ validate_configuration(c2).exc = InvalidExpectationConfigurationError
                   /\ verdict[t].msg # validate_configuration(c2).msg

\* C9 amended: the message of an InvalidExpectationConfigurationError is
\* one of four texts; it names a field that fails, and tells a None value
\* ('... must be specified') from a value that is not a string or is empty
\* ('column list must be string', 'logical expression must be a string');
\* the messages of the two fields differ, and a non-string value and an
\* empty string of one field produce the same message.
C9_MessageNamesFieldAndCheck ==
    \A t \in Callers :
        (Rejected(t) /\ verdict[t].exc = InvalidExpectationConfigurationError) =>
            /\ verdict[t].msg \in {"column list must be specified",
                                   "logical expression must be specified",
                                   "column list must be string",
                                   "logical expression must be a string"}
            /\ verdict[t].msg = "column list must be specified"
                  => FailureKind(configuration[t], "column_list") = "none"
            /\ verdict[t].msg = "logical expression must be specified"
                  => FailureKind(configuration[t], "expression") = "none"
            /\ verdict[t].msg = "column list must be string"
                  => FailureKind(configuration[t], "column_list") \in {"type", "empty"}
            /\ verdict[t].msg = "logical expression must be a string"
                  => FailureKind(configuration[t], "expression") \in {"type", "empty"}
            /\ \A key \in RequiredFields : \A c2 \in Configurations :
                  (/\ OnlyFails(configuration[t], key)
                   /\ OnlyFails(c2, key)
                   /\ {FailureKind(configuration[t], key), FailureKind(c2, key)}
                         = {"type", "empty"})
                  => validate_configuration(c2) = verdict[t]

C9_Witness ==
    \E t \in Callers :
        /\ Rejected(t)
        /\ verdict[t] = Raise(InvalidExpectationConfigurationError, "column list must be string")
        /\ FailureKind(configuration[t], "column_list") = "empty"
        /\ FailureKind(configuration[t], "expression") = "ok"

\* The failure the precedence of C10 picks for a configuration that holds
\* both fields: "" when it is accepted.
ExpectedMessage(c) ==
    LET cl == FailureKind(c, "column_list")
        ex == FailureKind(c, "expression")
    IN  CASE cl = "none" -> "column list must be specified"
          [] cl # "none" /\ ex = "none" -> "logical expression must be specified"
          [] cl \in {"type", "empty"} /\ ex # "none" -> "column list must be string"
          [] cl = "ok" /\ ex \in {"type", "empty"} -> "logical expression must be a string"
          [] OTHER -> ""

\* C10: validate_configuration reports one failure, by the precedence
\* column_list None, expression None, column_list not a string or empty,
\* expression not a string or empty; with column_list not a string or
\* empty and expression None the message is 'logical expression must be
\* specified'.
C10_Precedence ==
    \A t \in Callers :
        (verdict[t] # None
            /\ \A k \in RequiredFields : FailureKind(configuration[t], k) # "absent") =>
            /\ ExpectedMessage(configuration[t]) = "" => verdict[t] = NoError
            /\ ExpectedMessage(configuration[t]) # "" =>
                  /\ Rejected(t)
                  /\ verdict[t] = Raise(InvalidExpectationConfigurationError,
                                        ExpectedMessage(configuration[t]))
            /\ (FailureKind(configuration[t], "column_list") \in {"type", "empty"}
                  /\ FailureKind(configuration[t], "expression") = "none")
                  => verdict[t].msg = "logical expression must be specified"
            /\ FailureKind(configuration[t], "column_list") = "none"
                  => verdict[t].msg = "column list must be specified"

C10_Witness ==
    \E t \in Callers :
        /\ Rejected(t)
        /\ FailureKind(configuration[t], "column_list") = "empty"
        /\ FailureKind(configuration[t], "expression") = "none"
        /\ verdict[t].msg = "logical expression must be specified"

=============================================================================
